---- MODULE Spec2Model ----
(***************************************************************************)
(* A model of MVP_GODOT/tools/svg_to_godot_polygons.py (the SVG territory  *)
(* to polygon converter) and of MVP_GODOT/tools/validate_integration.py    *)
(* (the integration checklist).                                            *)
(*                                                                         *)
(* Numbers.  Python floats are modelled by integers: every coordinate and  *)
(* tolerance of one run is an integer number of one common unit, so that   *)
(* sums, differences, products and squares are exact.  The one place where *)
(* the float range shows is `** 2`, which raises OverflowError when its    *)
(* result is out of range; SqrtMaxFloat is the (scaled down) largest       *)
(* magnitude whose square is still a float.                                *)
(***************************************************************************)
EXTENDS Integers, Sequences, FiniteSets, TLC

VARIABLES
    \* simplify_polygon called on its own
    coordinates,       \* argument: the list of (x, y) points
    tolerance,         \* argument: the minimum distance
    simplified,        \* what the call produced: [exc, value]
    simp_pc            \* "call" before the call, "done" after it

VARIABLES
    \* parse_svg_path
    path_string,       \* argument: the path data, a sequence of characters
    tokens,            \* re.findall's result
    i,                 \* index of the token being scanned (0-based, as in the code)
    path_coordinates,  \* the local list `coordinates` of parse_svg_path
    parse_pc           \* "tokenize", "scan", "done"

VARIABLES
    \* main and convert_svg_folder
    argv,              \* sys.argv, a sequence of strings (sequences of characters)
    folder_exists,     \* svg_path.exists()
    folder_files,      \* the *.svg files of the folder: filename stem -> content
    mkdir_ok,          \* whether output_path.parent.mkdir(...) succeeds
    write_outcome,     \* what writing the output file meets: "ok", "open_fails", "stat_fails"
    target_width,      \* main's local, then the converter's field
    target_height,     \* main's local, then the converter's field
    scale_x,           \* converter field
    scale_y,           \* converter field
    simplify,          \* convert_svg_folder's argument
    conv_tolerance,    \* convert_svg_folder's argument
    svg_files,         \* sorted(svg_files), the list the loop walks
    idx,               \* the loop's position in svg_files (1-based)
    result,            \* the dict `result`, as its entries in insertion order
    conv_pc,           \* "idle", "convert", "loop", "returned", "raised"
    main_pc,           \* "idle", "args", "mkdir", "construct", "convert", "exited"
    exit_status,       \* the process exit status, -1 while running
    file_written,      \* the output file holds the whole dataset
    write_attempted,   \* save_to_json opened (or tried to open) the output file
    summary_printed    \* the three summary lines of save_to_json were printed

VARIABLES
    \* check_integration
    json_exists,       \* territory_polygons.json exists
    json_parses,       \* json.load returns (no JSONDecodeError)
    record_count,      \* len(data), when json.load returns
    samples_ok,        \* every sampled record present has vertex_count and centroid
    artifacts,         \* for each of the three text artifacts: [exists, marker1, marker2]
    checks_passed,
    checks_total,
    val_pc,            \* "idle", "json", "tscn", "gd", "main_gd", "summary", "exited", "raised"
    val_exit           \* the process exit status, -1 while running

simpVars == <<coordinates, tolerance, simplified, simp_pc>>
parseVars == <<path_string, tokens, i, path_coordinates, parse_pc>>
envVars == <<argv, folder_exists, folder_files, mkdir_ok, write_outcome>>
converterVars == <<target_width, target_height, scale_x, scale_y>>
convVars == <<simplify, conv_tolerance, svg_files, idx, result, conv_pc>>
mainVars == <<main_pc, exit_status, file_written, write_attempted, summary_printed>>
runVars == <<envVars, converterVars, convVars, mainVars>>
valVars == <<json_exists, json_parses, record_count, samples_ok, artifacts,
             checks_passed, checks_total, val_pc, val_exit>>
vars == <<simpVars, parseVars, runVars, valVars>>

----------------------------------------------------------------------------
(* Bounds of the model and the input sets drawn from them.                 *)

MaxPoints == 4

MaxPathLen == 5

\* Characters the path strings are drawn from: the three supported commands,
\* an unsupported command, a digit, the decimal point and a separator.
PathChars == { "M", "L", "Z", "C", "1", ".", " " }

\* Points the inputs of simplify_polygon are drawn from.
Grid == { <<0, 0>>, <<1, 0>>, <<2, 0>>, <<4, 0>>, <<0, 1>>, <<1, 1>> }

\* Tolerances the inputs of simplify_polygon are drawn from.
Tolerances == { -1, 0, 1, 2, 3 }

SeqsUpTo(S, n) == UNION { [1..k -> S] : k \in 0..n }

----------------------------------------------------------------------------
(* Float arithmetic of simplify_polygon.                                   *)

\* Largest magnitude v for which v ** 2 is still a float (scaled down).
SqrtMaxFloat == 1000

Abs(v) == IF v < 0 THEN -v ELSE v

\* (curr - prev) ** 2 raises OverflowError when the result is out of range.
PowOverflows(prev, curr) ==
    \/ Abs(curr[1] - prev[1]) > SqrtMaxFloat
    \/ Abs(curr[2] - prev[2]) > SqrtMaxFloat

\* The radicand of `distance`: (curr_x - prev_x) ** 2 + (curr_y - prev_y) ** 2.
Radicand(prev, curr) ==
    (curr[1] - prev[1]) * (curr[1] - prev[1])
        + (curr[2] - prev[2]) * (curr[2] - prev[2])

\* A variant of FarEnough: distance > tolerance.
StrictlyFarther(radicand, tol) == tol < 0 \/ radicand > tol * tol

\* distance >= tolerance, for distance = radicand ** 0.5 (a value >= 0):
\* true for every tolerance <= 0, and radicand >= tolerance^2 otherwise.
FarEnough(radicand, tol) == tol <= 0 \/ radicand >= tol * tol

\* A variant of TooFewPoints: len(coordinates) < 3.
FewerThanThree(c) == Len(c) < 3

\* len(coordinates) <= 3: the polygon is returned as it is.
TooFewPoints(c) == Len(c) <= 3

Returned(v) == [exc |-> "none", value |-> v]
Raised(e) == [exc |-> e, value |-> <<>>]

\* A variant of PrevPoint: the point visited just before, kept or not.
PrevIsLastVisited(c, j, kept) == c[j - 1]

\* prev_x, prev_y = simplified[-1]: the last point kept.  (j is the loop
\* index of `for i in range(1, len(coordinates))`, 1-based here.)
PrevPoint(c, j, kept) == kept[Len(kept)]

\* The loop from index j on, `kept` being the list `simplified` so far.
RECURSIVE SimplifyLoop(_, _, _, _)
SimplifyLoop(c, tol, j, kept) ==
    IF j > Len(c) THEN Returned(kept)
    ELSE LET prev == PrevPoint(c, j, kept)
             curr == c[j]
         IN  IF PowOverflows(prev, curr) THEN Raised("OverflowError")
             ELSE IF FarEnough(Radicand(prev, curr), tol)
                  THEN SimplifyLoop(c, tol, j + 1, Append(kept, curr))
                  ELSE SimplifyLoop(c, tol, j + 1, kept)

simplify_polygon(c, tol) ==
    IF TooFewPoints(c) THEN Returned(c)
    ELSE SimplifyLoop(c, tol, 2, <<c[1]>>)

----------------------------------------------------------------------------
(* simplify_polygon on its own: the inputs are drawn, the call is made.    *)

SimplifyIdle ==
    /\ coordinates = <<>>
    /\ tolerance = 0
    /\ simplified = Returned(<<>>)
    /\ simp_pc = "idle"

ParseIdle ==
    /\ path_string = <<>>
    /\ tokens = <<>>
    /\ i = 0
    /\ path_coordinates = <<>>
    /\ parse_pc = "idle"

EnvIdle ==
    /\ argv = <<>>
    /\ folder_exists = FALSE
    /\ folder_files = <<>>
    /\ mkdir_ok = TRUE
    /\ write_outcome = "ok"

ConverterIdle ==
    /\ target_width = 0
    /\ target_height = 0
    /\ scale_x = 0
    /\ scale_y = 0

ConvIdle ==
    /\ simplify = FALSE
    /\ conv_tolerance = 0
    /\ svg_files = <<>>
    /\ idx = 0
    /\ result = <<>>
    /\ conv_pc = "idle"

MainIdle ==
    /\ main_pc = "idle"
    /\ exit_status = -1
    /\ file_written = FALSE
    /\ write_attempted = FALSE
    /\ summary_printed = FALSE

RunIdle == EnvIdle /\ ConverterIdle /\ ConvIdle /\ MainIdle

ValIdle ==
    /\ json_exists = FALSE
    /\ json_parses = FALSE
    /\ record_count = 0
    /\ samples_ok = TRUE
    /\ artifacts = <<>>
    /\ checks_passed = 0
    /\ checks_total = 0
    /\ val_pc = "idle"
    /\ val_exit = -1

InitSimplify ==
    /\ ParseIdle
    /\ RunIdle
    /\ ValIdle
    /\ coordinates \in SeqsUpTo(Grid, MaxPoints)
    /\ tolerance \in Tolerances
    /\ simplified = Returned(<<>>)
    /\ simp_pc = "call"

SimplifyCall ==
    /\ simp_pc = "call"
    /\ simplified' = simplify_polygon(coordinates, tolerance)
    /\ simp_pc' = "done"
    /\ UNCHANGED <<coordinates, tolerance, parseVars, runVars, valVars>>

NextSimplify == SimplifyCall

SpecSimplify == InitSimplify /\ [][NextSimplify]_vars

----------------------------------------------------------------------------
(* parse_svg_path: the tokenizer and the token scan.                        *)

Letters == { "M", "L", "Z", "C" }
Digits == { "1" }
Whitespace == { " " }

\* str.strip(): leading and trailing whitespace removed.
RECURSIVE StripLeft(_)
StripLeft(s) ==
    IF s # <<>> /\ Head(s) \in Whitespace THEN StripLeft(Tail(s)) ELSE s

RECURSIVE StripRight(_)
StripRight(s) ==
    IF s # <<>> /\ s[Len(s)] \in Whitespace
    THEN StripRight(SubSeq(s, 1, Len(s) - 1)) ELSE s

Strip(s) == StripRight(StripLeft(s))

\* A variant of IsCommandChar: every command letter makes a token.
AnyLetterIsCommand(ch) == ch \in Letters

\* The regular expression [MLZ]|[\d.]+ : its two alternatives.
IsCommandChar(ch) == ch \in { "M", "L", "Z" }

IsNumberChar(ch) == ch \in Digits \cup { "." }

\* Length of the longest prefix of s matched by [\d.]+ .
RECURSIVE RunLength(_)
RunLength(s) ==
    IF s # <<>> /\ IsNumberChar(Head(s)) THEN 1 + RunLength(Tail(s)) ELSE 0

\* re.findall: the non-overlapping matches, left to right; a character that
\* starts no match is passed over.
RECURSIVE FindAll(_)
FindAll(s) ==
    IF s = <<>> THEN <<>>
    ELSE IF IsCommandChar(Head(s)) THEN <<(<<Head(s)>>)>> \o FindAll(Tail(s))
    ELSE IF IsNumberChar(Head(s))
         THEN LET n == RunLength(s)
              IN  <<SubSeq(s, 1, n)>> \o FindAll(SubSeq(s, n + 1, Len(s)))
    ELSE FindAll(Tail(s))

CountOf(ch, tok) == Cardinality({ k \in 1..Len(tok) : tok[k] = ch })

\* float(token) returns (no ValueError): digits with at most one decimal
\* point and at least one digit.  A command letter does not parse.
FloatParses(tok) ==
    /\ \A k \in 1..Len(tok) : IsNumberChar(tok[k])
    /\ CountOf(".", tok) <= 1
    /\ \E k \in 1..Len(tok) : tok[k] \in Digits

DigitValue(ch) == IF ch = "1" THEN 1 ELSE 0

RECURSIVE Mantissa(_)
Mantissa(tok) ==
    IF tok = <<>> THEN 0
    ELSE LET last == tok[Len(tok)]
             rest == SubSeq(tok, 1, Len(tok) - 1)
         IN  IF last = "." THEN Mantissa(rest)
             ELSE 10 * Mantissa(rest) + DigitValue(last)

\* Number of digits after the decimal point.
FractionDigits(tok) ==
    IF CountOf(".", tok) = 0 THEN 0
    ELSE Len(tok) - (CHOOSE k \in 1..Len(tok) : tok[k] = ".")

\* float(token) as the decimal <<m, f>>, standing for m / 10^f.
FloatValue(tok) == <<Mantissa(tok), FractionDigits(tok)>>

\* tokens[k] for the code's 0-based k.
TokenAt(toks, k) == toks[k + 1]

\* `if i + 2 < len(tokens)` and the two float() calls of the M/L branch.
CommandHasPoint(toks, k) ==
    /\ k + 2 < Len(toks)
    /\ FloatParses(TokenAt(toks, k + 1))
    /\ FloatParses(TokenAt(toks, k + 2))

\* `if i + 1 < len(tokens)` and the two float() calls of the else branch.
NumberHasPoint(toks, k) ==
    /\ k + 1 < Len(toks)
    /\ FloatParses(TokenAt(toks, k))
    /\ FloatParses(TokenAt(toks, k + 1))

\* A variant of AfterCommand: i += 2, the y operand is scanned again.
AfterCommandOperandsKept(k) == k + 2

\* i += 3 after an M or L that appended its point.
AfterCommand(k) == k + 3

InitParse ==
    /\ SimplifyIdle
    /\ RunIdle
    /\ ValIdle
    /\ path_string \in SeqsUpTo(PathChars, MaxPathLen)
    /\ tokens = <<>>
    /\ i = 0
    /\ path_coordinates = <<>>
    /\ parse_pc = "tokenize"

Tokenize ==
    /\ parse_pc = "tokenize"
    /\ tokens' = FindAll(Strip(path_string))
    /\ i' = 0
    /\ path_coordinates' = <<>>
    /\ parse_pc' = "scan"
    /\ UNCHANGED <<path_string, simpVars, runVars, valVars>>

\* while i < len(tokens), token in ['M', 'L']
ScanCommand ==
    /\ parse_pc = "scan"
    /\ i < Len(tokens)
    /\ TokenAt(tokens, i) \in { <<"M">>, <<"L">> }
    /\ IF CommandHasPoint(tokens, i)
       THEN /\ path_coordinates' =
                   Append(path_coordinates,
                          << FloatValue(TokenAt(tokens, i + 1)),
                             FloatValue(TokenAt(tokens, i + 2)) >>)
            /\ i' = AfterCommand(i)
       ELSE /\ path_coordinates' = path_coordinates
            /\ i' = i + 1
    /\ UNCHANGED <<path_string, tokens, parse_pc, simpVars, runVars, valVars>>

\* while i < len(tokens), token == 'Z'
ScanClose ==
    /\ parse_pc = "scan"
    /\ i < Len(tokens)
    /\ TokenAt(tokens, i) = <<"Z">>
    /\ i' = i + 1
    /\ UNCHANGED <<path_string, tokens, path_coordinates, parse_pc, simpVars, runVars, valVars>>

\* while i < len(tokens), the else branch: a coordinate without a command
ScanNumber ==
    /\ parse_pc = "scan"
    /\ i < Len(tokens)
    /\ TokenAt(tokens, i) \notin { <<"M">>, <<"L">>, <<"Z">> }
    /\ IF NumberHasPoint(tokens, i)
       THEN /\ path_coordinates' =
                   Append(path_coordinates,
                          << FloatValue(TokenAt(tokens, i)),
                             FloatValue(TokenAt(tokens, i + 1)) >>)
            /\ i' = i + 2
       ELSE /\ path_coordinates' = path_coordinates
            /\ i' = i + 1
    /\ UNCHANGED <<path_string, tokens, parse_pc, simpVars, runVars, valVars>>

\* the loop condition fails: return coordinates
ParseReturn ==
    /\ parse_pc = "scan"
    /\ i >= Len(tokens)
    /\ parse_pc' = "done"
    /\ UNCHANGED <<path_string, tokens, i, path_coordinates, simpVars, runVars, valVars>>

NextParse == Tokenize \/ ScanCommand \/ ScanClose \/ ScanNumber \/ ParseReturn

SpecParse == InitParse /\ [][NextParse]_vars

----------------------------------------------------------------------------
(* The converter: __init__, parse_svg_file, scale_coordinates,             *)
(* calculate_centroid and convert_svg_folder.                              *)

MaxFiles == 2

\* Filename stems the folders are drawn from, in sorted order.
SortedStems == << "alaska", "great_britain", "quebec" >>

Stems ==
    { SortedStems[k] : k \in 1..(IF MaxFiles < 3 THEN MaxFiles ELSE 3) }

\* What an SVG file may hold: whether ET.parse accepts it, and for each of its
\* path elements the points parse_svg_path makes of its d attribute (none for
\* an absent or empty d).
Malformed == [xml_ok |-> FALSE, paths |-> <<>>]
NoPathElements == [xml_ok |-> TRUE, paths |-> <<>>]
PointlessPath == [xml_ok |-> TRUE, paths |-> << <<>> >>]
Triangle == [xml_ok |-> TRUE, paths |-> << << <<0, 0>>, <<4, 0>>, <<4, 4>> >> >>]
Dense ==
    [xml_ok |-> TRUE,
     paths |-> << << <<0, 0>>, <<0, 0>>, <<3, 0>>, <<3, 3>>, <<3, 3>> >> >>]
TwoPaths ==
    [xml_ok |-> TRUE,
     paths |-> << << <<1, 1>> >>, <<>>, << <<5, 1>>, <<5, 5>> >> >>]
\* A coordinate written with so many digits that its square is no float.
Oversized ==
    [xml_ok |-> TRUE,
     paths |-> << << <<0, 0>>, <<2000, 0>>, <<1, 1>>, <<2, 2>> >> >>]

FileContents ==
    { Malformed, NoPathElements, PointlessPath, Triangle, Dense, TwoPaths,
      Oversized }

\* The folders: any set of the stems, each file with any of the contents.
Folders == UNION { [S -> FileContents] : S \in SUBSET Stems }

SourceWidth == 1920
SourceHeight == 1080
DefaultWidth == 1920
DefaultHeight == 1080

\* target / source.  The target sizes drawn are multiples of the source
\* sizes, so the quotient is exact.
ScaleFactor(target, source) == target \div source

RECURSIVE Concat(_)
Concat(seqs) == IF seqs = <<>> THEN <<>> ELSE Head(seqs) \o Concat(Tail(seqs))

\* parse_svg_file: [] when ET.parse raises (the except clause) or there is no
\* path element, else the points of all paths, in document order.
parse_svg_file(content) ==
    IF ~content.xml_ok THEN <<>>
    ELSE IF content.paths = <<>> THEN <<>>
    ELSE Concat(content.paths)

scale_coordinates(c, sx, sy) ==
    [k \in 1..Len(c) |-> << c[k][1] * sx, c[k][2] * sy >>]

RECURSIVE SumOf(_, _)
SumOf(c, axis) == IF c = <<>> THEN 0 ELSE Head(c)[axis] + SumOf(Tail(c), axis)

\* round(num / den, 2), in hundredths (num >= 0, den > 0).
RoundHundredths(num, den) == (200 * num + den) \div (2 * den)

\* calculate_centroid, then the rounding of line 289: in hundredths.
calculate_centroid(c) ==
    IF c = <<>> THEN <<0, 0>>
    ELSE << RoundHundredths(SumOf(c, 1), Len(c)),
            RoundHundredths(SumOf(c, 2), Len(c)) >>

\* svg_file.stem.replace('_', ' ').title()
DisplayName(stem) ==
    CASE stem = "alaska" -> "Alaska"
      [] stem = "great_britain" -> "Great Britain"
      [] stem = "quebec" -> "Quebec"

Rank(stem) == CHOOSE k \in 1..Len(SortedStems) : SortedStems[k] = stem

\* sorted(svg_files)
Sorted(listing) == SortSeq(listing, LAMBDA a, b : Rank(a) < Rank(b))

\* list(svg_path.glob("*.svg")): the files in any order.
Listings(S) ==
    { f \in [1..Cardinality(S) -> S] : \A a, b \in DOMAIN f : f[a] = f[b] => a = b }

\* The file the loop is at, and what the loop body makes of it.
CurrentStem == svg_files[idx]
RawCoords == parse_svg_file(folder_files[CurrentStem])
ScaledCoords == scale_coordinates(RawCoords, scale_x, scale_y)
SimplifyOutcome ==
    IF simplify THEN simplify_polygon(ScaledCoords, conv_tolerance)
    ELSE Returned(ScaledCoords)

\* The record of lines 286-291.  The coordinates are whole numbers, which
\* round(x, 2) leaves as they are.
TerritoryRecord(stem, polygon) ==
    [name |-> DisplayName(stem),
     polygon |-> polygon,
     centroid |-> calculate_centroid(polygon),
     vertex_count |-> Len(polygon)]

\* if not svg_path.exists(): return {}
ConvertNoFolder ==
    /\ conv_pc = "convert"
    /\ ~folder_exists
    /\ result' = <<>>
    /\ conv_pc' = "returned"
    /\ UNCHANGED <<simplify, conv_tolerance, svg_files, idx>>
    /\ UNCHANGED <<envVars, converterVars, mainVars, simpVars, parseVars, valVars>>

\* if not svg_files: return {}
ConvertNoFiles ==
    /\ conv_pc = "convert"
    /\ folder_exists
    /\ DOMAIN folder_files = {}
    /\ result' = <<>>
    /\ conv_pc' = "returned"
    /\ UNCHANGED <<simplify, conv_tolerance, svg_files, idx>>
    /\ UNCHANGED <<envVars, converterVars, mainVars, simpVars, parseVars, valVars>>

\* result = {} and the start of `for idx, svg_file in enumerate(sorted(svg_files), 1)`
ConvertBegin ==
    /\ conv_pc = "convert"
    /\ folder_exists
    /\ DOMAIN folder_files # {}
    /\ \E listing \in Listings(DOMAIN folder_files) :
           svg_files' = Sorted(listing)
    /\ idx' = 1
    /\ result' = <<>>
    /\ conv_pc' = "loop"
    /\ UNCHANGED <<simplify, conv_tolerance>>
    /\ UNCHANGED <<envVars, converterVars, mainVars, simpVars, parseVars, valVars>>

\* if not raw_coords: continue
FileSkipped ==
    /\ conv_pc = "loop"
    /\ idx <= Len(svg_files)
    /\ RawCoords = <<>>
    /\ idx' = idx + 1
    /\ UNCHANGED <<simplify, conv_tolerance, svg_files, result, conv_pc>>
    /\ UNCHANGED <<envVars, converterVars, mainVars, simpVars, parseVars, valVars>>

\* the loop body to its end: scale, simplify, centroid, result[territory_id] = ...
FileConverted ==
    /\ conv_pc = "loop"
    /\ idx <= Len(svg_files)
    /\ RawCoords # <<>>
    /\ SimplifyOutcome.exc = "none"
    /\ result' = Append(result,
                        [key |-> CurrentStem,
                         value |-> TerritoryRecord(CurrentStem,
                                                   SimplifyOutcome.value)])
    /\ idx' = idx + 1
    /\ UNCHANGED <<simplify, conv_tolerance, svg_files, conv_pc>>
    /\ UNCHANGED <<envVars, converterVars, mainVars, simpVars, parseVars, valVars>>

\* simplify_polygon raises: nothing in convert_svg_folder catches it.
FileRaises ==
    /\ conv_pc = "loop"
    /\ idx <= Len(svg_files)
    /\ RawCoords # <<>>
    /\ SimplifyOutcome.exc # "none"
    /\ conv_pc' = "raised"
    /\ UNCHANGED <<simplify, conv_tolerance, svg_files, idx, result>>
    /\ UNCHANGED <<envVars, converterVars, mainVars, simpVars, parseVars, valVars>>

\* the loop is over: return result
ConvertReturn ==
    /\ conv_pc = "loop"
    /\ idx > Len(svg_files)
    /\ conv_pc' = "returned"
    /\ UNCHANGED <<simplify, conv_tolerance, svg_files, idx, result>>
    /\ UNCHANGED <<envVars, converterVars, mainVars, simpVars, parseVars, valVars>>

NextFolder ==
    \/ ConvertNoFolder
    \/ ConvertNoFiles
    \/ ConvertBegin
    \/ FileSkipped
    \/ FileConverted
    \/ FileRaises
    \/ ConvertReturn

\* convert_svg_folder called on a converter built with the default sizes.
InitFolder ==
    /\ SimplifyIdle
    /\ ParseIdle
    /\ ValIdle
    /\ MainIdle
    /\ argv = <<>>
    /\ mkdir_ok = TRUE
    /\ write_outcome = "ok"
    /\ folder_exists \in BOOLEAN
    /\ folder_files \in Folders
    /\ folder_exists \/ DOMAIN folder_files = {}
    /\ target_width = DefaultWidth
    /\ target_height = DefaultHeight
    /\ scale_x = ScaleFactor(DefaultWidth, SourceWidth)
    /\ scale_y = ScaleFactor(DefaultHeight, SourceHeight)
    /\ simplify \in BOOLEAN
    /\ conv_tolerance \in { 0, 1 }
    /\ svg_files = <<>>
    /\ idx = 0
    /\ result = <<>>
    /\ conv_pc = "convert"

SpecFolder == InitFolder /\ [][NextFolder]_vars

----------------------------------------------------------------------------
(* main and save_to_json.                                                  *)

DigitChars == << "0", "1", "2", "3", "4", "5", "6", "7", "8", "9" >>

IsDigit(ch) == \E k \in 1..10 : DigitChars[k] = ch

\* int(s) returns (no ValueError): a non-empty run of digits.
IntParses(str) == str # <<>> /\ \A k \in 1..Len(str) : IsDigit(str[k])

RECURSIVE IntValue(_)
IntValue(str) ==
    IF str = <<>> THEN 0
    ELSE 10 * IntValue(SubSeq(str, 1, Len(str) - 1))
             + ((CHOOSE k \in 1..10 : DigitChars[k] = str[Len(str)]) - 1)

\* sys.argv[k], for the code's 0-based k.
Arg(av, k) == av[k + 1]

\* Lines 357-365: target_width after the try statement.
TargetWidthFromArgs(av) ==
    IF Len(av) > 4 /\ IntParses(Arg(av, 3))
    THEN IntValue(Arg(av, 3))
    ELSE DefaultWidth

\* Lines 358-365: target_height after the try statement; int(sys.argv[4]) is
\* reached only when int(sys.argv[3]) returned.
TargetHeightFromArgs(av) ==
    IF Len(av) > 4 /\ IntParses(Arg(av, 3)) /\ IntParses(Arg(av, 4))
    THEN IntValue(Arg(av, 4))
    ELSE DefaultHeight

\* tolerance=1.0 of main's call of convert_svg_folder
MainTolerance == 1

\* Strings the two size arguments are drawn from: a size that is a multiple
\* of both source sizes, and a string that is no integer.
SizeArgs == { << "1", "7", "2", "8", "0" >>, << "a", "b", "c" >> }

Program == << "s", "v", "g" >>
InputArg == << "i", "n" >>
OutputArg == << "o", "u", "t" >>

ArgvChoices ==
    { <<Program>>, <<Program, InputArg>>, <<Program, InputArg, OutputArg>> }
        \cup { <<Program, InputArg, OutputArg, w>> : w \in SizeArgs }
        \cup { <<Program, InputArg, OutputArg, w, h>> : w \in SizeArgs, h \in SizeArgs }

\* Lines 344-365: the command line is read.
MainArgs ==
    /\ main_pc = "args"
    /\ target_width' = TargetWidthFromArgs(argv)
    /\ target_height' = TargetHeightFromArgs(argv)
    /\ main_pc' = "mkdir"
    /\ UNCHANGED <<scale_x, scale_y, exit_status, file_written, write_attempted,
                   summary_printed>>
    /\ UNCHANGED <<envVars, convVars, simpVars, parseVars, valVars>>

\* Lines 373-374: output_path.parent.mkdir(parents=True, exist_ok=True)
MainMkdir ==
    /\ main_pc = "mkdir"
    /\ mkdir_ok
    /\ main_pc' = "construct"
    /\ UNCHANGED <<exit_status, file_written, write_attempted, summary_printed>>
    /\ UNCHANGED <<envVars, converterVars, convVars, simpVars, parseVars, valVars>>

\* mkdir raises: main catches nothing, the interpreter exits with status 1.
MainMkdirRaises ==
    /\ main_pc = "mkdir"
    /\ ~mkdir_ok
    /\ main_pc' = "exited"
    /\ exit_status' = 1
    /\ UNCHANGED <<file_written, write_attempted, summary_printed>>
    /\ UNCHANGED <<envVars, converterVars, convVars, simpVars, parseVars, valVars>>

\* Lines 377-389: the converter is built and convert_svg_folder called.
MainConstruct ==
    /\ main_pc = "construct"
    /\ scale_x' = ScaleFactor(target_width, SourceWidth)
    /\ scale_y' = ScaleFactor(target_height, SourceHeight)
    /\ simplify' = TRUE
    /\ conv_tolerance' = MainTolerance
    /\ conv_pc' = "convert"
    /\ main_pc' = "convert"
    /\ UNCHANGED <<target_width, target_height, svg_files, idx, result>>
    /\ UNCHANGED <<exit_status, file_written, write_attempted, summary_printed>>
    /\ UNCHANGED <<envVars, simpVars, parseVars, valVars>>

\* convert_svg_folder raised: main catches nothing, exit status 1.
MainUncaught ==
    /\ main_pc = "convert"
    /\ conv_pc = "raised"
    /\ main_pc' = "exited"
    /\ exit_status' = 1
    /\ UNCHANGED <<file_written, write_attempted, summary_printed>>
    /\ UNCHANGED <<envVars, converterVars, convVars, simpVars, parseVars, valVars>>

\* MainNoTerritories without its check: the empty dataset goes on to
\* save_to_json.
SaveEmptyDataset ==
    /\ main_pc = "convert"
    /\ conv_pc = "returned"
    /\ result = <<>>
    /\ write_attempted' = TRUE
    /\ file_written' = (write_outcome # "open_fails")
    /\ summary_printed' = (write_outcome = "ok")
    /\ exit_status' = IF write_outcome = "ok" THEN 0 ELSE 1
    /\ main_pc' = "exited"
    /\ UNCHANGED <<envVars, converterVars, convVars, simpVars, parseVars, valVars>>

\* Lines 391-393: if not godot_data: sys.exit(1)
MainNoTerritories ==
    /\ main_pc = "convert"
    /\ conv_pc = "returned"
    /\ result = <<>>
    /\ main_pc' = "exited"
    /\ exit_status' = 1
    /\ UNCHANGED <<file_written, write_attempted, summary_printed>>
    /\ UNCHANGED <<envVars, converterVars, convVars, simpVars, parseVars, valVars>>

\* Lines 396-407 and save_to_json with nothing raised in its try block: the
\* file is written, the summary printed, main returns (exit status 0).
MainSaved ==
    /\ main_pc = "convert"
    /\ conv_pc = "returned"
    /\ result # <<>>
    /\ write_outcome = "ok"
    /\ write_attempted' = TRUE
    /\ file_written' = TRUE
    /\ summary_printed' = TRUE
    /\ main_pc' = "exited"
    /\ exit_status' = 0
    /\ UNCHANGED <<envVars, converterVars, convVars, simpVars, parseVars, valVars>>

\* save_to_json's except clause: open (or json.dump) raised, or the file was
\* written and stat raised; either way sys.exit(1).
MainSaveFails ==
    /\ main_pc = "convert"
    /\ conv_pc = "returned"
    /\ result # <<>>
    /\ write_outcome # "ok"
    /\ write_attempted' = TRUE
    /\ file_written' = (write_outcome = "stat_fails")
    /\ summary_printed' = FALSE
    /\ main_pc' = "exited"
    /\ exit_status' = 1
    /\ UNCHANGED <<envVars, converterVars, convVars, simpVars, parseVars, valVars>>

NextMain ==
    \/ MainArgs
    \/ MainMkdir
    \/ MainMkdirRaises
    \/ MainConstruct
    \/ NextFolder
    \/ MainUncaught
    \/ MainNoTerritories
    \/ MainSaved
    \/ MainSaveFails

InitMain ==
    /\ SimplifyIdle
    /\ ParseIdle
    /\ ValIdle
    /\ ConverterIdle
    /\ ConvIdle
    /\ argv \in ArgvChoices
    /\ folder_exists \in BOOLEAN
    /\ folder_files \in Folders
    /\ folder_exists \/ DOMAIN folder_files = {}
    /\ mkdir_ok \in BOOLEAN
    /\ write_outcome \in { "ok", "open_fails", "stat_fails" }
    /\ main_pc = "args"
    /\ exit_status = -1
    /\ file_written = FALSE
    /\ write_attempted = FALSE
    /\ summary_printed = FALSE

SpecMain == InitMain /\ [][NextMain]_vars

----------------------------------------------------------------------------
(* validate_integration.py: check_integration and the exit statement.      *)

\* len(data) == 42
ExpectedTerritories == 42

\* Numbers of records the JSON object may hold.
RecordCounts ==
    { 0, ExpectedTerritories - 1, ExpectedTerritories, ExpectedTerritories + 1 }

\* len(data) == 42, reached when the file exists and json.load returns
RightCount == json_exists /\ json_parses /\ record_count = ExpectedTerritories

\* A text artifact: whether it exists and which of its two markers it holds.
ArtifactStates ==
    { [exists |-> FALSE, marker1 |-> FALSE, marker2 |-> FALSE] }
        \cup { [exists |-> TRUE, marker1 |-> a, marker2 |-> b] :
                   a \in BOOLEAN, b \in BOOLEAN }

\* if path.exists(): content = path.read_text(); if m1 in content and m2 in content
ArtifactPasses(a) == a.exists /\ a.marker1 /\ a.marker2

\* Checks 1 and 2 (lines 19-52) when nothing is raised past the try statement.
JsonChecksPassed ==
    IF ~json_exists THEN 0
    ELSE IF RightCount THEN 2
    ELSE 1

\* Lines 37-42: the sample lines are printed only for a right count; a sampled
\* record without vertex_count or centroid raises KeyError there.
SamplePrintRaises == RightCount /\ ~samples_ok

CheckJson ==
    /\ val_pc = "json"
    /\ ~SamplePrintRaises
    /\ checks_total' = checks_total + 2
    /\ checks_passed' = checks_passed + JsonChecksPassed
    /\ val_pc' = "tscn"
    /\ UNCHANGED <<json_exists, json_parses, record_count, samples_ok, artifacts, val_exit>>
    /\ UNCHANGED <<simpVars, parseVars, runVars>>

\* The KeyError of line 42 is caught by nothing (the except clause names
\* json.JSONDecodeError): traceback, exit status 1, no summary.
CheckJsonRaises ==
    /\ val_pc = "json"
    /\ SamplePrintRaises
    /\ checks_total' = checks_total + 2
    /\ checks_passed' = checks_passed + 2
    /\ val_pc' = "raised"
    /\ val_exit' = 1
    /\ UNCHANGED <<json_exists, json_parses, record_count, samples_ok, artifacts>>
    /\ UNCHANGED <<simpVars, parseVars, runVars>>

\* Check 3, lines 54-65: Territory.tscn
CheckTscn ==
    /\ val_pc = "tscn"
    /\ checks_total' = checks_total + 1
    /\ checks_passed' =
           checks_passed + (IF ArtifactPasses(artifacts[1]) THEN 1 ELSE 0)
    /\ val_pc' = "gd"
    /\ UNCHANGED <<json_exists, json_parses, record_count, samples_ok, artifacts, val_exit>>
    /\ UNCHANGED <<simpVars, parseVars, runVars>>

\* Check 4, lines 67-78: Territory.gd
CheckTerritoryGd ==
    /\ val_pc = "gd"
    /\ checks_total' = checks_total + 1
    /\ checks_passed' =
           checks_passed + (IF ArtifactPasses(artifacts[2]) THEN 1 ELSE 0)
    /\ val_pc' = "main_gd"
    /\ UNCHANGED <<json_exists, json_parses, record_count, samples_ok, artifacts, val_exit>>
    /\ UNCHANGED <<simpVars, parseVars, runVars>>

\* Check 5, lines 80-91: Main.gd
CheckMainGd ==
    /\ val_pc = "main_gd"
    /\ checks_total' = checks_total + 1
    /\ checks_passed' =
           checks_passed + (IF ArtifactPasses(artifacts[3]) THEN 1 ELSE 0)
    /\ val_pc' = "summary"
    /\ UNCHANGED <<json_exists, json_parses, record_count, samples_ok, artifacts, val_exit>>
    /\ UNCHANGED <<simpVars, parseVars, runVars>>

\* Lines 93-113: the summary, and sys.exit(0 if success else 1)
Summary ==
    /\ val_pc = "summary"
    /\ val_exit' = IF checks_passed = checks_total THEN 0 ELSE 1
    /\ val_pc' = "exited"
    /\ UNCHANGED <<json_exists, json_parses, record_count, samples_ok, artifacts,
                   checks_passed, checks_total>>
    /\ UNCHANGED <<simpVars, parseVars, runVars>>

NextValidate ==
    \/ CheckJson
    \/ CheckJsonRaises
    \/ CheckTscn
    \/ CheckTerritoryGd
    \/ CheckMainGd
    \/ Summary

InitValidate ==
    /\ SimplifyIdle
    /\ ParseIdle
    /\ RunIdle
    /\ json_exists \in BOOLEAN
    /\ json_parses \in BOOLEAN
    /\ record_count \in RecordCounts
    /\ samples_ok \in BOOLEAN
    /\ ~json_exists => ~json_parses
    /\ ~json_parses => record_count = 0
    /\ record_count = 0 => samples_ok
    /\ artifacts \in [1..3 -> ArtifactStates]
    /\ checks_passed = 0
    /\ checks_total = 0
    /\ val_pc = "json"
    /\ val_exit = -1

SpecValidate == InitValidate /\ [][NextValidate]_vars

----------------------------------------------------------------------------
(* Properties of simplify_polygon, checked under SpecSimplify.             *)

\* The subsequence of c at the indices K, in order.
SubseqAt(c, K) ==
    LET F[n \in 0..Len(c)] ==
            IF n = 0 THEN <<>>
            ELSE IF n \in K THEN Append(F[n - 1], c[n]) ELSE F[n - 1]
    IN  F[Len(c)]

\* The largest index of K below j.
LastKeptBefore(K, j) ==
    CHOOSE k \in K : k < j /\ \A m \in K : m < j => m <= k

\* The Euclidean distance of p and q is at least t.
EuclidAtLeast(p, q, t) ==
    \/ t <= 0
    \/ (p[1] - q[1]) * (p[1] - q[1]) + (p[2] - q[2]) * (p[2] - q[2]) >= t * t

\* K is the set of indices a greedy left-to-right walk keeps.
GreedyKeepSet(c, t, K) ==
    /\ 1 \in K
    /\ \A j \in 2..Len(c) :
           j \in K <=> EuclidAtLeast(c[j], c[LastKeptBefore(K, j)], t)

C2_Points == << <<0, 0>>, <<1, 0>>, <<4, 0>> >>

C2_Case == simp_pc = "done" /\ coordinates = C2_Points /\ tolerance = 2

\* C2 as claimed: tolerance 1.0 on [(0,0),(0.5,0),(2,0)] returns
\* [(0,0),(2,0)], the second point being dropped.
C2_SecondPointDropped ==
    C2_Case => simplified = Returned(<< <<0, 0>>, <<4, 0>> >>)

\* C2 as amended: tolerance 1.0 on the three points [(0,0),(0.5,0),(2,0)]
\* returns all three points: an input of 3 points is returned as it is.
C2_ThreePointsReturned == C2_Case => simplified = Returned(C2_Points)

C2_Witness == C2_Case /\ Len(simplified.value) = 3

\* Number of points equal to the point just before them.
ConsecutiveDuplicates(c) ==
    Cardinality({ j \in 2..Len(c) : c[j] = c[j - 1] })

C4_ShortInputUnchanged ==
    (simp_pc = "done" /\ Len(coordinates) <= 3) =>
        simplified = Returned(coordinates)

\* Three points, two of them closer together than the tolerance.
C4_Witness ==
    /\ simp_pc = "done"
    /\ Len(coordinates) = 3
    /\ tolerance > 0
    /\ ~EuclidAtLeast(coordinates[2], coordinates[1], tolerance)
    /\ simplified = Returned(coordinates)

----------------------------------------------------------------------------
(* Properties of parse_svg_path, checked under SpecParse.                  *)

IsCommandToken(tok) == tok \in { <<"M">>, <<"L">> }

PointOf(xtok, ytok) == << FloatValue(xtok), FloatValue(ytok) >>

\* The points a token sequence stands for, by the rules of the path grammar:
\* an M or L followed by two numbers is one point and uses up the three
\* tokens; an M or L not followed by two numbers is skipped alone; Z is
\* skipped; a number followed by a number is one point; any other token is
\* dropped.
RECURSIVE PointsOf(_)
PointsOf(toks) ==
    IF toks = <<>> THEN <<>>
    ELSE IF IsCommandToken(toks[1])
         THEN IF Len(toks) >= 3 /\ FloatParses(toks[2]) /\ FloatParses(toks[3])
              THEN <<PointOf(toks[2], toks[3])>>
                       \o PointsOf(SubSeq(toks, 4, Len(toks)))
              ELSE PointsOf(Tail(toks))
    ELSE IF toks[1] = <<"Z">> THEN PointsOf(Tail(toks))
    ELSE IF Len(toks) >= 2 /\ FloatParses(toks[1]) /\ FloatParses(toks[2])
         THEN <<PointOf(toks[1], toks[2])>>
                  \o PointsOf(SubSeq(toks, 3, Len(toks)))
         ELSE PointsOf(Tail(toks))

\* What one iteration of the scan does with the token at index i.
ScanStepContract ==
    (parse_pc = "scan" /\ i < Len(tokens)) =>
        LET tok == TokenAt(tokens, i)
            twoNumbersFollow ==
                /\ i + 2 < Len(tokens)
                /\ FloatParses(TokenAt(tokens, i + 1))
                /\ FloatParses(TokenAt(tokens, i + 2))
            oneNumberFollows ==
                i + 1 < Len(tokens) /\ FloatParses(TokenAt(tokens, i + 1))
            skipped == path_coordinates' = path_coordinates /\ i' = i + 1
        IN  /\ i' > i
            /\ i' <= Len(tokens)
            /\ (IsCommandToken(tok) /\ twoNumbersFollow) =>
                   /\ path_coordinates' =
                          Append(path_coordinates,
                                 PointOf(TokenAt(tokens, i + 1),
                                         TokenAt(tokens, i + 2)))
                   /\ i' = i + 3
            /\ (IsCommandToken(tok) /\ ~twoNumbersFollow) => skipped
            /\ tok = <<"Z">> => skipped
            /\ (FloatParses(tok) /\ oneNumberFollows) =>
                   /\ path_coordinates' =
                          Append(path_coordinates,
                                 PointOf(tok, TokenAt(tokens, i + 1)))
                   /\ i' = i + 2
            /\ (FloatParses(tok) /\ i + 1 >= Len(tokens)) => skipped

\* C5: an M or L uses up exactly the two numeric tokens after it and appends
\* that one point, and is skipped alone (no point, no error) when two numeric
\* tokens do not follow it; Z uses up nothing and appends nothing; a number
\* outside a command is paired with the number after it and is dropped when
\* no token follows; every iteration advances, the scan never stops before
\* the end of the tokens, and the result is the points in left-to-right order.
C5_ScanContract ==
    /\ [][ScanStepContract]_vars
    /\ []((parse_pc = "scan" /\ i < Len(tokens)) =>
              ENABLED (ScanCommand \/ ScanClose \/ ScanNumber))
    /\ [](parse_pc = "done" =>
              /\ i = Len(tokens)
              /\ path_coordinates = PointsOf(tokens))

\* "M1 1" followed by a point-less command: one point, the command skipped.
C5_Witness ==
    /\ parse_pc = "done"
    /\ Len(tokens) = 4
    /\ tokens[1] = <<"M">>
    /\ tokens[4] = <<"L">>
    /\ path_coordinates = << << <<1, 0>>, <<1, 0>> >> >>

IsUnsupported(ch) == ch \in Letters \ { "M", "L", "Z" }

\* s without its unsupported commands and their operands: from an unsupported
\* letter on, everything up to the next supported command letter is removed.
RECURSIVE WithoutUnsupported(_, _)
WithoutUnsupported(s, dropping) ==
    IF s = <<>> THEN <<>>
    ELSE IF IsUnsupported(Head(s)) THEN WithoutUnsupported(Tail(s), TRUE)
    ELSE IF Head(s) \in { "M", "L", "Z" }
         THEN <<Head(s)>> \o WithoutUnsupported(Tail(s), FALSE)
    ELSE IF dropping THEN <<" ">> \o WithoutUnsupported(Tail(s), TRUE)
    ELSE <<Head(s)>> \o WithoutUnsupported(Tail(s), FALSE)

\* s with each unsupported command letter replaced by a separator.
LettersBlanked(s) ==
    [k \in 1..Len(s) |-> IF IsUnsupported(s[k]) THEN " " ELSE s[k]]

\* C6 as claimed: an unsupported command is dropped together with its
\* operands, which contribute no point: the result is that of the path
\* without the unsupported commands and their operands.
C6_OperandsDropped ==
    parse_pc = "done" =>
        path_coordinates = PointsOf(FindAll(WithoutUnsupported(path_string, FALSE)))

\* C6 as amended: only the unsupported command letter is dropped (it is no
\* token and raises nothing); its operands stay in the token stream, as if
\* the letter were a separator, and are paired into points like any other
\* numbers.
C6_OnlyLetterDropped ==
    parse_pc \in { "scan", "done" } =>
        /\ \A k \in 1..Len(tokens) : tokens[k] # <<"C">>
        /\ tokens = FindAll(LettersBlanked(path_string))
        /\ parse_pc = "done" =>
               path_coordinates = PointsOf(FindAll(LettersBlanked(path_string)))

\* "C1 1": the operands of the unsupported command become a point.
C6_Witness ==
    /\ parse_pc = "done"
    /\ path_string = << "C", "1", " ", "1" >>
    /\ path_coordinates = << << <<1, 0>>, <<1, 0>> >> >>

----------------------------------------------------------------------------
(* Properties of convert_svg_folder (SpecFolder) and of main (SpecMain).   *)

YieldsPoints(stem) ==
    stem \in DOMAIN folder_files /\ parse_svg_file(folder_files[stem]) # <<>>

InFolder(stem) == stem \in DOMAIN folder_files

ResultKeys == [k \in 1..Len(result) |-> result[k].key]

\* C7: convert_svg_folder walks all the files in filename-sorted order and
\* no file aborts it: a file that fails to parse or yields no point is
\* skipped, the later files are still processed, and the dataset returned
\* holds one record for each file that yielded a point, keyed by its stem, in
\* sorted-filename order.
C7_NoFileAbortsBatch ==
    /\ conv_pc # "raised"
    /\ conv_pc = "loop" => svg_files = SelectSeq(SortedStems, InFolder)
    /\ (conv_pc = "returned" /\ folder_exists) =>
           ResultKeys = SelectSeq(SortedStems, YieldsPoints)

\* C8: main ends with a failure status when no territory was converted or the
\* write failed, and with status 0 only after the dataset was written and the
\* summary printed; the write is attempted only for a non-empty dataset.
C8_ExitStatus ==
    /\ write_attempted => (conv_pc = "returned" /\ result # <<>>)
    /\ main_pc = "exited" =>
           /\ exit_status \in { 0, 1 }
           /\ result = <<>> => exit_status = 1
           /\ (write_attempted /\ write_outcome # "ok") => exit_status = 1
           /\ exit_status = 0 =>
                  write_attempted /\ file_written /\ summary_printed

\* A run that skips one file, converts another and ends with status 0.
C8_Witness ==
    /\ main_pc = "exited"
    /\ exit_status = 0
    /\ file_written
    /\ Len(result) = 1
    /\ Len(svg_files) = 2

\* C9: with both sizes on the command line and either of them no integer,
\* the converter is built with the default target viewport 1920x1080.
C9_BothSizesFallBack ==
    (/\ main_pc = "convert"
     /\ Len(argv) > 4
     /\ (~IntParses(Arg(argv, 3)) \/ ~IntParses(Arg(argv, 4)))) =>
        target_width = DefaultWidth /\ target_height = DefaultHeight

----------------------------------------------------------------------------
(* Properties of validate_integration.py, checked under SpecValidate.      *)

\* The five things the validator looks for.
AllChecksHold ==
    /\ json_exists
    /\ json_parses
    /\ record_count = ExpectedTerritories
    /\ \A k \in 1..3 : artifacts[k].exists /\ artifacts[k].marker1 /\ artifacts[k].marker2

\* C10: the validator's process exits with status 0 if and only if the JSON
\* exists, holds 42 records and each of the three artifacts exists and holds
\* both its markers, and with a non-zero status otherwise; a run of
\* check_integration that reaches its summary has counted 5 checks.
C10_SuccessIffAllChecksHold ==
    /\ val_pc \in { "exited", "raised" } => (val_exit = 0 <=> AllChecksHold)
    /\ val_pc = "exited" => checks_total = 5

====
